---- MODULE Spec2Model ----
(***************************************************************************)
(* Model of the vocabulary trainer: its core (core.py) and the study       *)
(* session of its GUI (gui.py).                                            *)
(*                                                                         *)
(* Representation.                                                         *)
(*  - A calendar date is a day number (days since 1970-01-01); an ISO      *)
(*    date string "YYYY-MM-DD" is the triple <<y, m, d>>.  Strftime and    *)
(*    Strptime convert between the two with the Gregorian calendar, and    *)
(*    strings are compared lexicographically, as Python compares them.     *)
(*  - ease is kept in hundredths (2.5 is 250, the floor 1.3 is 130).  The  *)
(*    code's binary floating point drifts from the decimal value by about  *)
(*    1e-16; the only place where that decides a result is round() on an   *)
(*    exact .5, where the code yields either neighbour depending on the    *)
(*    drift.  RoundNearest therefore returns both neighbours on a tie.     *)
(*  - A priority is an exact fraction <<numerator, denominator>> in lowest  *)
(*    terms.  Priorities that differ as fractions differ the same way as   *)
(*    floats (they are at least 1e-8 apart in relative terms); entries     *)
(*    with equal priority are ordered by word, descending, as the sort of  *)
(*    (priority, word) tuples orders them.                                 *)
(*                                                                         *)
(* Specifications.                                                         *)
(*  - Spec: the program from start-up; schedule_next_review calls and the  *)
(*    passing of days.                                                     *)
(*  - SpecPlan: build_study_plan applied to a range of stores.             *)
(*  - SpecTracker: update_streak and check_achievements on loaded progress *)
(*    records.                                                             *)
(*  - SpecApp: study sessions of the GUI (start, submit, rate, finish).    *)
(*  - SpecWords: add, remove, edit and schedule from an empty store.       *)
(*  - SpecFrame: words added and edited while study sessions run.          *)
(*  - SpecDesk: words added, edited and deleted while study sessions run.  *)
(*  - SpecHistory: plans and sessions on entries with 4 to 6 records.     *)
(*  - SpecSave: study sessions with the application closed and restarted.  *)
(*  - SpecRatings: schedule_next_review with any integer rating 0..5.      *)
(*  - SpecTarget: suggested_daily_target on stores of up to 25 words.      *)
(*  - SpecHeal: upgrade_vocab_schema on files of older schemas.            *)
(***************************************************************************)
EXTENDS Integers, Sequences, FiniteSets, TLC

VARIABLES
    vocab,        \* core.vocab: word -> entry (DOMAIN vocab = the keys)
    progress,     \* core.progress
    stats,        \* core.stats
    now,          \* the clock: today's day number
    calls,        \* number of state-changing calls made so far (bounded)
    scheduledOn,  \* history: word -> day of its last schedule call, or NoDay
    order,        \* the keys of core.vocab in the dict's (insertion) order
    session,      \* the GUI's study session: session_active, plan and state
    disk,         \* the three JSON files: what each of them holds
    last          \* history: the last operation, its arguments and result

vars == <<vocab, progress, stats, now, calls, scheduledOn, order, session, disk, last>>

(***************************************************************************)
(* Bounds of the model.                                                    *)
(***************************************************************************)
MaxDays == 3        \* the clock advances at most this many days
MaxCalls == 3       \* at most this many schedule calls in a run
MaxTarget == 3      \* largest target passed to build_study_plan
MaxReviews == 2    \* cards answered in study sessions
MaxAdds == 2       \* words added in a run
MaxRemoves == 1    \* removals counted in a run

(***************************************************************************)
(* Words.  WordOrder lists the universe in Python's string order           *)
(* (code points: upper case before lower case).                            *)
(***************************************************************************)
WordOrder == <<"Ant", "ant", "bee", "cat">>
Words == {WordOrder[i] : i \in 1..Len(WordOrder)}
WordIndex(w) == CHOOSE i \in 1..Len(WordOrder) : WordOrder[i] = w
WordLess(a, b) == WordIndex(a) < WordIndex(b)
Lower(w) == IF w = "Ant" THEN "ant" ELSE w
CaseUnique(S) == \A a \in S : \A b \in S : Lower(a) = Lower(b) => a = b

Max(a, b) == IF a >= b THEN a ELSE b
Min(a, b) == IF a <= b THEN a ELSE b

(***************************************************************************)
(* Calendar: date <-> day number, and ISO date strings.                    *)
(***************************************************************************)
DaysFromCivil(y, m, d) ==
    LET yy  == IF m <= 2 THEN y - 1 ELSE y
        era == yy \div 400
        yoe == yy - era * 400
        mp  == IF m > 2 THEN m - 3 ELSE m + 9
        doy == (153 * mp + 2) \div 5 + d - 1
        doe == yoe * 365 + yoe \div 4 - yoe \div 100 + doy
    IN  era * 146097 + doe - 719468

CivilFromDays(z) ==
    LET zz  == z + 719468
        era == zz \div 146097
        doe == zz - era * 146097
        yoe == (doe - doe \div 1460 + doe \div 36524 - doe \div 146096) \div 365
        doy == doe - (365 * yoe + yoe \div 4 - yoe \div 100)
        mp  == (5 * doy + 2) \div 153
        d   == doy - (153 * mp + 2) \div 5 + 1
        m   == IF mp < 10 THEN mp + 3 ELSE mp - 9
        y   == yoe + era * 400 + (IF m <= 2 THEN 1 ELSE 0)
    IN  <<y, m, d>>

\* date.strftime("%Y-%m-%d")
Strftime(day) == CivilFromDays(day)
\* datetime.strptime(s, "%Y-%m-%d").date()
Strptime(s) == DaysFromCivil(s[1], s[2], s[3])
\* mutant of StrLeq: the strings are "DD-MM-YYYY"
StrLeq_DayFirst(s, t) ==
    \/ s[3] < t[3]
    \/ s[3] = t[3] /\ s[2] < t[2]
    \/ s[3] = t[3] /\ s[2] = t[2] /\ s[1] <= t[1]

\* s <= t on "YYYY-MM-DD" strings: lexicographic, year first
StrLeq(s, t) ==
    \/ s[1] < t[1]
    \/ s[1] = t[1] /\ s[2] < t[2]
    \/ s[1] = t[1] /\ s[2] = t[2] /\ s[3] <= t[3]

\* The clock starts two days before a year boundary.
StartDay == DaysFromCivil(2024, 12, 30)
NoDay == -1
NoDate == <<>>

(***************************************************************************)
(* Entries and the stores loaded at start-up.                              *)
(***************************************************************************)
\* mutant of NewEntry: the first review is due on the next day
NewEntry_DueTomorrow(sentence, note, day) ==
    [sentence |-> sentence, note |-> note, box |-> 1,
     times_reviewed |-> 0, times_correct |-> 0, ease |-> 250,
     history |-> <<>>, last_reviewed |-> NoDate,
     next_review |-> Strftime(day + 1), interval |-> 1]

\* the record add_word_gui_logic creates, and the defaults of
\* upgrade_vocab_schema
NewEntry(sentence, note, day) ==
    [sentence |-> sentence, note |-> note, box |-> 1,
     times_reviewed |-> 0, times_correct |-> 0, ease |-> 250,
     history |-> <<>>, last_reviewed |-> NoDate,
     next_review |-> Strftime(day), interval |-> 1]

DefaultProgress ==
    [current_streak |-> 0, longest_streak |-> 0, last_study_date |-> NoDate,
     achievements |-> <<>>, total_reviews |-> 0, studied_today |-> 0,
     xp |-> 0, history |-> <<>>]

DefaultStats ==
    [words_added |-> 0, words_removed |-> 0, quiz_attempts |-> 0,
     quiz_correct |-> 0]

\* no study session: session_active is False and there is no session window.
\* active: session_active; open: the session window exists; plan and index
\* .. answered: the plan and the state dict of open_session_window;
\* reviews_at_start (history): total_reviews when the session started
NoSession ==
    [active |-> FALSE, open |-> FALSE, plan |-> <<>>, index |-> 0,
     correct |-> 0, reviewed |-> 0, can_rate |-> FALSE, answered |-> FALSE,
     reviews_at_start |-> 0]

\* the keys of a loaded store in the order of the vocabulary file, taken to
\* be sorted
KeysInOrder(v) ==
    [i \in 1..Cardinality(DOMAIN v) |->
        CHOOSE w \in DOMAIN v :
            Cardinality({u \in DOMAIN v : WordIndex(u) < WordIndex(w)}) = i - 1]

\* `last` before any call.  op: the operation; word, rating, target, arg:
\* its arguments; found, ok, ret: its results; pre, vocab, order, progress,
\* stats: the entry, the store and the records as they were before it; mid:
\* progress as the update_streak call inside finish_session left it;
\* result: what the caller of schedule_next_review gets back
NoCall ==
    [op |-> "none", word |-> "", rating |-> 0, found |-> FALSE,
     pre |-> NewEntry("", "", StartDay), target |-> 0, ret |-> <<>>,
     arg |-> <<>>, ok |-> FALSE, vocab |-> <<>>, order |-> <<>>,
     progress |-> DefaultProgress, mid |-> DefaultProgress,
     stats |-> DefaultStats, result |-> "",
     disk |-> [vocab |-> <<>>, progress |-> DefaultProgress,
               stats |-> DefaultStats]]


(***************************************************************************)
(* The files.  json.dump followed by json.load gives back the dataset it   *)
(* was given: the values are strings, numbers, booleans, null, lists and   *)
(* dicts with string keys, and floats are written in their shortest        *)
(* round-tripping form.  A file therefore holds a dataset, or, when a      *)
(* write was cut short, text that is not a JSON document.                  *)
(***************************************************************************)
\* the three files after load_vocab, load_progress and load_stats gave
\* v, p and s
Loaded(v, p, s) == [vocab |-> v, progress |-> p, stats |-> s]

\* save_vocab, save_progress and save_stats when the write completes
SaveVocab(d, v) == [d EXCEPT !.vocab = v]
SaveProgress(d, p) == [d EXCEPT !.progress = p]
SaveStats(d, s) == [d EXCEPT !.stats = s]

\* what a file holds after open(..., "w") has emptied it and json.dump was
\* cut short: nothing, or the beginning of a document
Torn == [torn |-> TRUE]

\* a save that raises: open() failed and the file is as it was, or the
\* file was opened, and so emptied, before the failure
FailedSave(d, f) == {d, [d EXCEPT ![f] = Torn]}

(***************************************************************************)
(* schedule_next_review.                                                   *)
(***************************************************************************)
\* mutant of EaseDelta: the quality is counted from 4, not from 5
EaseDelta_FromFour(q) == 10 - (4 - q) * (8 + (4 - q) * 2)

\* 0.1 - (5 - q) * (0.08 + (5 - q) * 0.02), in hundredths
EaseDelta(q) == 10 - (5 - q) * (8 + (5 - q) * 2)

\* mutants of NewEase: no floor; a floor of 1.0
NewEase_NoFloor(ease, q) == ease + EaseDelta(q)
NewEase_FloorOne(ease, q) == Max(100, ease + EaseDelta(q))

\* ease = max(1.3, ease + ...)
NewEase(ease, q) == Max(130, ease + EaseDelta(q))

\* round(n / d) for n >= 0, d > 0: the nearest integer; on an exact half the
\* code's result depends on the floating-point drift of ease, so both
\* neighbours are possible.
RoundNearest(n, d) ==
    LET fl == n \div d
        r  == n % d
    IN  IF 2 * r < d THEN {fl}
        ELSE IF 2 * r > d THEN {fl + 1}
        ELSE {fl, fl + 1}

\* mutant of NextIntervals: int() instead of round()
NextIntervals_Truncating(interval, ease, q) ==
    IF q < 3 THEN {1}
    ELSE IF interval = 1 THEN {3}
    ELSE {(interval * ease) \div 100}

\* the values the new interval can take; ease is the ease already updated
NextIntervals(interval, ease, q) ==
    IF q < 3 THEN {1}
    ELSE IF interval = 1 THEN {3}
    ELSE RoundNearest(interval * ease, 100)

\* mutant of NewBox: no min(5, ...)
NewBox_NoCeiling(box, q) == Max(1, box + (IF q >= 3 THEN 1 ELSE -1))

\* min(5, max(1, box + (1 if q >= 3 else -1)))
NewBox(box, q) == Min(5, Max(1, box + (IF q >= 3 THEN 1 ELSE -1)))

\* the entry as schedule_next_review leaves it on day `day`
Scheduled(data, q, iv, day) ==
    [data EXCEPT !.ease = NewEase(data.ease, q),
                 !.interval = iv,
                 !.next_review = Strftime(day + iv),
                 !.box = NewBox(data.box, q)]

(***************************************************************************)
(* get_due_words.                                                          *)
(***************************************************************************)
GetDueWords(v, day) ==
    {w \in DOMAIN v : StrLeq(v[w].next_review, Strftime(day))}

(***************************************************************************)
(* build_study_plan.                                                       *)
(***************************************************************************)
RECURSIVE Gcd(_, _)
Gcd(a, b) == IF b = 0 THEN a ELSE Gcd(b, a % b)
\* n / d in lowest terms
Frac(n, d) == <<n \div Gcd(n, d), d \div Gcd(n, d)>>
\* the product of two fractions in lowest terms, in lowest terms
FracMul(a, b) ==
    LET g1 == Gcd(a[1], b[2])
        g2 == Gcd(b[1], a[2])
    IN  <<(a[1] \div g1) * (b[1] \div g2), (a[2] \div g2) * (b[2] \div g1)>>
\* a < b for non-negative fractions with positive denominators, compared
\* by integer part and then by the reciprocals of the fractional parts
RECURSIVE FracLess(_, _)
FracLess(a, b) ==
    LET qa == a[1] \div a[2]
        ra == a[1] % a[2]
        qb == b[1] \div b[2]
        rb == b[1] % b[2]
    IN  IF qa # qb THEN qa < qb
        ELSE IF rb = 0 THEN FALSE
        ELSE IF ra = 0 THEN TRUE
        ELSE FracLess(<<b[2], rb>>, <<a[2], ra>>)

\* mutant of OverdueDays: no max(0, ...)
OverdueDays_Unclamped(data, day) == day - Strptime(data.next_review)

OverdueDays(data, day) == Max(0, day - Strptime(data.next_review))
OverdueFactor(data, day) == Frac(100 + OverdueDays(data, day) * 15, 100)
DifficultyFactor(data) == Frac(350, data.ease)
\* mutant of AccuracyFactor: 1 + accuracy * 1.5
AccuracyFactor_Inverted(data) ==
    IF data.times_reviewed > 0
    THEN Frac(2 * data.times_reviewed + 3 * data.times_correct,
              2 * data.times_reviewed)
    ELSE <<1, 1>>

\* 1 + (1 - accuracy) * 1.5, accuracy = correct / reviewed if reviewed > 0 else 0
AccuracyFactor(data) ==
    IF data.times_reviewed > 0
    THEN Frac(2 * data.times_reviewed
                + 3 * (data.times_reviewed - data.times_correct),
              2 * data.times_reviewed)
    ELSE <<5, 2>>
\* mutant of NewWordFactor: no boost
NewWordFactor_None(data) == <<1, 1>>

NewWordFactor(data) == IF data.times_reviewed = 0 THEN <<9, 5>> ELSE <<1, 1>>
\* history[-5:]
\* mutant of Recent: the last 6 records
Recent_LastSix(history) ==
    IF Len(history) <= 6 THEN history
    ELSE SubSeq(history, Len(history) - 5, Len(history))

Recent(history) ==
    IF Len(history) <= 5 THEN history
    ELSE SubSeq(history, Len(history) - 4, Len(history))
RecentErrors(data) ==
    LET recent == Recent(data.history)
    IN  Cardinality({i \in 1..Len(recent) : ~recent[i].correct})
ErrorBoost(data) == Frac(10 + RecentErrors(data) * 3, 10)

Priority(data, day) ==
    FracMul(OverdueFactor(data, day),
      FracMul(DifficultyFactor(data),
        FracMul(AccuracyFactor(data),
          FracMul(NewWordFactor(data), ErrorBoost(data)))))

\* mutant of SortsBefore: sort() without reverse=True
SortsBefore_Ascending(pr, a, b) ==
    \/ FracLess(pr[a], pr[b])
    \/ /\ ~FracLess(pr[b], pr[a])
       /\ WordLess(a, b)

\* (priority, word) tuples under sort(reverse=True): with priorities pr,
\* a is placed before b
SortsBefore(pr, a, b) ==
    \/ FracLess(pr[b], pr[a])
    \/ /\ ~FracLess(pr[a], pr[b])
       /\ WordLess(b, a)

\* scored_words after the sort, as the sequence of its words
ScoredWords(v, day) ==
    LET pr   == [w \in DOMAIN v |-> Priority(v[w], day)]
        rank == [w \in DOMAIN v |->
                    Cardinality({u \in DOMAIN v : SortsBefore(pr, u, w)})]
    IN  [i \in 1..Cardinality(DOMAIN v) |->
            CHOOSE w \in DOMAIN v : rank[w] = i - 1]

\* mutant of SliceTo: s[:target + 1]
SliceTo_OneMore(s, target) ==
    IF target + 1 >= 0 THEN SubSeq(s, 1, Min(target + 1, Len(s)))
    ELSE SubSeq(s, 1, Max(0, Len(s) + target + 1))

\* s[:target]
SliceTo(s, target) ==
    IF target >= 0 THEN SubSeq(s, 1, Min(target, Len(s)))
    ELSE SubSeq(s, 1, Max(0, Len(s) + target))

BuildStudyPlan(v, day, target) == SliceTo(ScoredWords(v, day), target)

(***************************************************************************)
(* Operations.                                                             *)
(***************************************************************************)
Ratings == 1..4
Targets == -2..MaxTarget

\* what schedule_next_review hands to its caller: it returns without a
\* value, and raises nothing, whether or not the word was found
ScheduleResult(found) == "None"

\* schedule_next_review(word, rating)
Schedule(word, rating) ==
    IF word \notin DOMAIN vocab
    THEN /\ last' = [NoCall EXCEPT !.op = "schedule", !.vocab = vocab,
                                   !.progress = progress, !.stats = stats,
                                   !.result = ScheduleResult(FALSE)]
         /\ UNCHANGED <<vocab, progress, stats, now, calls, scheduledOn, order, session, disk>>
    ELSE /\ calls < MaxCalls
         /\ \E iv \in NextIntervals(vocab[word].interval,
                                    NewEase(vocab[word].ease, rating), rating) :
              vocab' = [vocab EXCEPT
                          ![word] = Scheduled(vocab[word], rating, iv, now)]
         /\ calls' = calls + 1
         /\ scheduledOn' = [scheduledOn EXCEPT ![word] = now]
         /\ last' = [NoCall EXCEPT !.op = "schedule", !.word = word,
                                   !.rating = rating, !.found = TRUE,
                                   !.pre = vocab[word],
                                   !.result = ScheduleResult(TRUE)]
         /\ disk' = SaveVocab(disk, vocab')
         /\ UNCHANGED <<progress, stats, now, order, session>>

\* mutant of BuildPlan: the plan's words are stamped as reviewed today
BuildPlan_Stamping(target) ==
    LET plan == BuildStudyPlan(vocab, now, target)
    IN  /\ last' = [NoCall EXCEPT !.op = "plan", !.target = target,
                                  !.ret = plan]
        /\ vocab' = [w \in DOMAIN vocab |->
                        IF \E i \in 1..Len(plan) : plan[i] = w
                        THEN [vocab[w] EXCEPT !.last_reviewed = Strftime(now)]
                        ELSE vocab[w]]
        /\ UNCHANGED <<progress, stats, now, calls, scheduledOn, order, session, disk>>

\* build_study_plan(target)
BuildPlan(target) ==
    /\ last' = [NoCall EXCEPT !.op = "plan", !.target = target,
                              !.ret = BuildStudyPlan(vocab, now, target)]
    /\ UNCHANGED <<vocab, progress, stats, now, calls, scheduledOn, order, session, disk>>

\* midnight passes
Tick ==
    /\ now < StartDay + MaxDays
    /\ now' = now + 1
    /\ last' = [NoCall EXCEPT !.op = "tick"]
    /\ UNCHANGED <<vocab, progress, stats, calls, scheduledOn, order, session, disk>>

(***************************************************************************)
(* Spec: the program from start-up, with one of LoadedStores in the        *)
(* vocabulary file (already healed by upgrade_vocab_schema).               *)
(***************************************************************************)
FreshEntry == NewEntry("s", "", StartDay)
MatureEntry ==
    [NewEntry("s", "", StartDay - 2) EXCEPT
        !.interval = 5, !.box = 4, !.times_reviewed = 5, !.times_correct = 4]
FloorEntry ==
    [NewEntry("s", "", StartDay + 1) EXCEPT !.ease = 130, !.interval = 2]
LegacyEntry ==
    [NewEntry("s", "", StartDay) EXCEPT !.ease = 100, !.interval = 5, !.box = 5]

LoadedStores ==
    { <<>>,
      [w \in {"ant"} |-> FreshEntry],
      [w \in {"bee"} |-> MatureEntry],
      [w \in {"Ant", "cat"} |-> IF w = "Ant" THEN FloorEntry ELSE LegacyEntry],
      [w \in {"ant", "bee"} |-> IF w = "ant" THEN FreshEntry ELSE MatureEntry] }

Init ==
    /\ vocab \in LoadedStores
    /\ progress = DefaultProgress
    /\ stats = DefaultStats
    /\ now = StartDay
    /\ calls = 0
    /\ scheduledOn = [w \in Words |-> NoDay]
    /\ order = KeysInOrder(vocab)
    /\ session = NoSession
    /\ disk = Loaded(vocab, progress, stats)
    /\ last = NoCall

Next ==
    \/ \E w \in Words : \E q \in Ratings : Schedule(w, q)
    \/ Tick

Spec == Init /\ [][Next]_vars

(***************************************************************************)
(* SpecPlan: build_study_plan applied to every store of PlanStores.  The   *)
(* entries differ in due date, ease, review counts and history.            *)
(***************************************************************************)
PlanDay == StartDay + 2
PlanHistories ==
    { <<>>,
      <<[date |-> Strftime(StartDay), correct |-> FALSE],
        [date |-> Strftime(StartDay), correct |-> TRUE]>> }
PlanCounts == {<<0, 0>>, <<5, 0>>, <<5, 1>>, <<5, 5>>}
PlanEntries ==
    { [NewEntry("s", "", d) EXCEPT
          !.ease = e, !.times_reviewed = c[1], !.times_correct = c[2],
          !.history = h] :
        d \in {StartDay, PlanDay + 2}, e \in {130, 250},
        c \in PlanCounts, h \in PlanHistories }
\* the third entry of a three-word store is one of these two
PlanThird ==
    { [NewEntry("s", "", StartDay) EXCEPT
          !.times_reviewed = 5, !.times_correct = 5],
      [NewEntry("s", "", PlanDay + 2) EXCEPT
          !.ease = 130, !.times_reviewed = 5, !.times_correct = 1,
          !.history = <<[date |-> Strftime(StartDay), correct |-> FALSE]>>] }
PlanStores ==
    UNION { {<<>>},
            [{"bee"} -> PlanEntries],
            [{"Ant", "bee"} -> PlanEntries],
            {v \in [{"ant", "bee", "cat"} -> PlanEntries \cup PlanThird] :
                /\ v["cat"] \in PlanThird
                /\ v["ant"].history = <<>>
                /\ v["bee"].history = <<>>} }

InitPlan ==
    /\ vocab \in PlanStores
    /\ progress = DefaultProgress
    /\ stats = DefaultStats
    /\ now = PlanDay
    /\ calls = 0
    /\ scheduledOn = [w \in Words |-> NoDay]
    /\ order = KeysInOrder(vocab)
    /\ session = NoSession
    /\ disk = Loaded(vocab, progress, stats)
    /\ last = NoCall

NextPlan == \E t \in Targets : BuildPlan(t)

SpecPlan == InitPlan /\ [][NextPlan]_vars

(***************************************************************************)
(* Properties of schedule_next_review and get_due_words (Spec).            *)
(***************************************************************************)
Abs(x) == IF x < 0 THEN -x ELSE x
\* the last operation was schedule on a stored entry
JustScheduled == last.op = "schedule" /\ last.found

\* C1: schedule sets the interval to 1 when q < 3, to 3 when q >= 3 and the
\* interval was 1, and otherwise to interval x ease' rounded to the nearest
\* integer (at most one half away from the product), ease' being the ease
\* this same call has stored.
C1_IntervalRule ==
    (JustScheduled /\ last.rating \in 1..4) =>
        LET pre  == last.pre
            post == vocab[last.word]
            q    == last.rating
        IN  /\ q < 3 => post.interval = 1
            /\ (q >= 3 /\ pre.interval = 1) => post.interval = 3
            /\ (q >= 3 /\ pre.interval > 1) =>
                 2 * Abs(100 * post.interval - pre.interval * post.ease) <= 100

\* a Good/Easy rating on an interval > 1 whose product is rounded up
C1_Witness ==
    /\ JustScheduled
    /\ last.rating >= 3
    /\ last.pre.interval > 1
    /\ vocab[last.word].ease < last.pre.ease
    /\ (last.pre.interval * vocab[last.word].ease) % 100 > 50
    /\ vocab[last.word].interval
         = (last.pre.interval * vocab[last.word].ease) \div 100 + 1

\* C2: a rating q >= 3 on an entry whose interval is > 1 yields a strictly
\* greater interval, whatever the prior ease.
C2_IntervalGrows ==
    (JustScheduled /\ last.rating >= 3 /\ last.pre.interval > 1) =>
        vocab[last.word].interval > last.pre.interval

\* the interval grew although the ease was at or below the floor
C2_Witness ==
    /\ JustScheduled
    /\ last.rating >= 3
    /\ last.pre.interval > 1
    /\ last.pre.ease <= 130
    /\ vocab[last.word].interval > last.pre.interval

\* C3: every entry that has been scheduled has ease >= 1.3.
C3_EaseFloor ==
    \A w \in DOMAIN vocab : scheduledOn[w] # NoDay => vocab[w].ease >= 130

\* an entry loaded with an ease below 1.3 was rated and is now at the floor
C3_Witness ==
    /\ JustScheduled
    /\ last.pre.ease < 130
    /\ vocab[last.word].ease = 130

\* C4: after schedule on day t the entry's interval is >= 1, its next_review
\* is the date t + interval, and the word is due exactly on the days from
\* t + interval on (until it is scheduled again).
C4_DueFromNextReview ==
    \A w \in DOMAIN vocab :
        scheduledOn[w] # NoDay =>
            /\ vocab[w].interval >= 1
            /\ Strptime(vocab[w].next_review) = scheduledOn[w] + vocab[w].interval
            /\ (w \in GetDueWords(vocab, now)
                  <=> now >= scheduledOn[w] + vocab[w].interval)

\* a word scheduled 3 days ahead in December becomes due in January
C4_Witness ==
    \E w \in DOMAIN vocab :
        /\ scheduledOn[w] # NoDay
        /\ vocab[w].interval = 3
        /\ now = scheduledOn[w] + 3
        /\ vocab[w].next_review[1] = 2025
        /\ w \in GetDueWords(vocab, now)

(***************************************************************************)
(* Properties of build_study_plan (SpecPlan).                              *)
(***************************************************************************)
Range(s) == {s[i] : i \in 1..Len(s)}
IndexOf(s, w) == CHOOSE i \in 1..Len(s) : s[i] = w
NoDuplicates(s) == \A i \in 1..Len(s) : \A j \in 1..Len(s) : s[i] = s[j] => i = j
\* if b is in the plan then a is too, and earlier
RankedBefore(plan, a, b) ==
    b \in Range(plan) =>
        (a \in Range(plan) /\ IndexOf(plan, a) < IndexOf(plan, b))
\* the last operation was build_study_plan
JustPlanned == last.op = "plan"
HigherPriority(a, b) ==
    FracLess(Priority(vocab[b], now), Priority(vocab[a], now))

\* C5: the plan is ordered by the composite priority: whenever
\* priority(a) > priority(b) and b is in the plan, a is in the plan before b.
C5_OrderedByPriority ==
    JustPlanned =>
        \A a \in DOMAIN vocab : \A b \in DOMAIN vocab :
            HigherPriority(a, b) => RankedBefore(last.ret, a, b)

\* a truncated plan in which the priority order is the reverse of the word
\* order the tie-break would give
C5_Witness ==
    /\ JustPlanned
    /\ Len(last.ret) = 2
    /\ Cardinality(DOMAIN vocab) = 3
    /\ HigherPriority(last.ret[1], last.ret[2])
    /\ WordLess(last.ret[1], last.ret[2])
    /\ \E c \in DOMAIN vocab : HigherPriority(last.ret[2], c)

\* C6 as stated: for every integer target, negative ones too, the plan is a
\* duplicate-free sequence of stored words of length <= target and <= the
\* number of entries.
C6_LengthAtMostTarget ==
    JustPlanned =>
        /\ NoDuplicates(last.ret)
        /\ Range(last.ret) \subseteq DOMAIN vocab
        /\ Len(last.ret) <= last.target
        /\ Len(last.ret) <= Cardinality(DOMAIN vocab)

\* C6 amended: the plan is always a duplicate-free sequence of stored words
\* of length <= the number of entries; for target >= 0 its length is
\* <= target; for target < 0 the plan holds all entries but the last
\* |target| of the priority order.
C6_LengthBounded ==
    JustPlanned =>
        /\ NoDuplicates(last.ret)
        /\ Range(last.ret) \subseteq DOMAIN vocab
        /\ Len(last.ret) <= Cardinality(DOMAIN vocab)
        /\ last.target >= 0 => Len(last.ret) <= last.target
        /\ last.target < 0 =>
             Len(last.ret) = Max(0, Cardinality(DOMAIN vocab) + last.target)

\* a target below the number of entries cuts the plan
C6_Witness ==
    /\ JustPlanned
    /\ last.target = 2
    /\ Cardinality(DOMAIN vocab) = 3
    /\ Len(last.ret) = 2

\* C7: build_study_plan changes no entry, nor the progress state, nor the
\* stats, and a second call with the same target on the same store and day
\* returns the same sequence.
C7_PlanIsPure ==
    [][last'.op = "plan" =>
          /\ vocab' = vocab
          /\ progress' = progress
          /\ stats' = stats
          /\ (last.op = "plan" /\ last.target = last'.target)
                => last'.ret = last.ret]_vars

\* a plan of two words, one of which has a review history, was returned
C7_Witness ==
    /\ JustPlanned
    /\ Len(last.ret) = 2
    /\ \E i \in 1..2 : vocab[last.ret[i]].history # <<>>

\* a is overdue, b is not yet due, and all their other fields are equal
OverdueTwin(a, b) ==
    /\ Strptime(vocab[a].next_review) < now
    /\ Strptime(vocab[b].next_review) > now
    /\ [vocab[a] EXCEPT !.next_review = vocab[b].next_review] = vocab[b]

\* C8: an overdue entry is ranked before an otherwise identical entry that
\* is not yet due, so a plan of 1 over the two returns the overdue one; an
\* entry not yet due has the priority it would have if it were due today.
C8_OverdueFirst ==
    JustPlanned =>
        /\ \A a \in DOMAIN vocab : \A b \in DOMAIN vocab :
              OverdueTwin(a, b) =>
                 /\ RankedBefore(last.ret, a, b)
                 /\ (DOMAIN vocab = {a, b} /\ last.target = 1)
                       => last.ret = <<a>>
        /\ \A b \in DOMAIN vocab :
              Strptime(vocab[b].next_review) > now =>
                 Priority(vocab[b], now)
                   = Priority([vocab[b] EXCEPT !.next_review = Strftime(now)],
                              now)

\* plan of 1 over an overdue entry and its not-yet-due twin, the overdue one
\* being the one a tie-break on the word would place last
C8_Witness ==
    /\ JustPlanned
    /\ last.target = 1
    /\ \E a \in DOMAIN vocab : \E b \in DOMAIN vocab :
          /\ DOMAIN vocab = {a, b}
          /\ OverdueTwin(a, b)
          /\ WordLess(a, b)
          /\ last.ret = <<a>>

\* a and b have the same due date, ease, number of reviews and recent
\* history, and a has fewer correct answers
LessAccurateTwin(a, b) ==
    /\ vocab[a].next_review = vocab[b].next_review
    /\ vocab[a].ease = vocab[b].ease
    /\ vocab[a].times_reviewed = vocab[b].times_reviewed
    /\ vocab[a].times_reviewed > 0
    /\ Recent(vocab[a].history) = Recent(vocab[b].history)
    /\ vocab[a].times_correct < vocab[b].times_correct

\* C9: of two entries that differ only in times_correct, the one with the
\* lower accuracy is ranked first, so a plan of 1 over the two returns it.
C9_LowAccuracyFirst ==
    JustPlanned =>
        \A a \in DOMAIN vocab : \A b \in DOMAIN vocab :
            LessAccurateTwin(a, b) =>
               /\ RankedBefore(last.ret, a, b)
               /\ (DOMAIN vocab = {a, b} /\ last.target = 1)
                     => last.ret = <<a>>

\* plan of 1 over an entry at 20% accuracy and its twin at 100%
C9_Witness ==
    /\ JustPlanned
    /\ last.target = 1
    /\ \E a \in DOMAIN vocab : \E b \in DOMAIN vocab :
          /\ DOMAIN vocab = {a, b}
          /\ LessAccurateTwin(a, b)
          /\ vocab[a].times_correct = 1
          /\ vocab[b].times_correct = vocab[b].times_reviewed
          /\ WordLess(a, b)
          /\ last.ret = <<a>>

\* a was never reviewed, b was, and they have the same due date, ease and
\* recent history
NewTwin(a, b) ==
    /\ vocab[a].times_reviewed = 0
    /\ vocab[b].times_reviewed > 0
    /\ vocab[a].next_review = vocab[b].next_review
    /\ vocab[a].ease = vocab[b].ease
    /\ Recent(vocab[a].history) = Recent(vocab[b].history)

\* C10: a never-reviewed entry is ranked before every reviewed entry with
\* the same due date, ease and recent history, also when both are not due.
C10_NewWordFirst ==
    JustPlanned =>
        \A a \in DOMAIN vocab : \A b \in DOMAIN vocab :
            NewTwin(a, b) => RankedBefore(last.ret, a, b)

\* a new entry placed first, before a twin that was reviewed but never
\* answered correctly, both due in the future
C10_Witness ==
    /\ JustPlanned
    /\ \E a \in DOMAIN vocab : \E b \in DOMAIN vocab :
          /\ NewTwin(a, b)
          /\ vocab[b].times_correct = 0
          /\ Strptime(vocab[a].next_review) > now
          /\ WordLess(a, b)
          /\ b \in Range(last.ret)
          /\ last.ret[1] = a


(***************************************************************************)
(* update_streak and check_achievements.                                   *)
(***************************************************************************)
\* progress["history"]: a dict from ISO date to the reviews of that day
HistGet(h, k) == IF k \in DOMAIN h THEN h[k] ELSE 0
HistAdd(h, k, n) ==
    [x \in DOMAIN h \cup {k} |-> IF x = k THEN HistGet(h, k) + n ELSE h[x]]

\* mutant of NextStreak: a gap of two or more days does not reset the streak
NextStreak_NoGapReset(p, day) ==
    IF p.last_study_date = NoDate THEN 1 ELSE p.current_streak + 1

\* mutant of NextStreak: the day after the last study date starts over too
NextStreak_AlwaysOne(p, day) == 1

\* current_streak as update_streak leaves it when `day` is not the last
\* study date
NextStreak(p, day) ==
    IF p.last_study_date = NoDate THEN 1
    ELSE IF day = Strptime(p.last_study_date) + 1 THEN p.current_streak + 1
    ELSE 1

\* mutant of NextLongest: the longest streak is never raised
NextLongest_Keep(longest, streak) == longest

NextLongest(longest, streak) == IF streak > longest THEN streak ELSE longest

\* mutant of UpdateStreak: the daily counter is not reset
UpdateStreak_NoDailyReset(p, day) ==
    IF p.last_study_date # NoDate /\ Strptime(p.last_study_date) = day
    THEN p
    ELSE [p EXCEPT !.current_streak = NextStreak(p, day),
                   !.longest_streak = NextLongest(@, NextStreak(p, day)),
                   !.last_study_date = Strftime(day)]

\* progress as update_streak leaves it on day `day`
UpdateStreak(p, day) ==
    IF p.last_study_date # NoDate /\ Strptime(p.last_study_date) = day
    THEN p
    ELSE [p EXCEPT !.current_streak = NextStreak(p, day),
                   !.longest_streak = NextLongest(@, NextStreak(p, day)),
                   !.studied_today = 0,
                   !.last_study_date = Strftime(day)]

\* achievements_to_check: identifier, the counter tested, its threshold and
\* the message shown
AchievementTable ==
    << [id |-> "XP_100",      of |-> "xp",      at |-> 100,
        msg |-> "Earned 100 XP"],
       [id |-> "XP_500",      of |-> "xp",      at |-> 500,
        msg |-> "Earned 500 XP"],
       [id |-> "XP_1000",     of |-> "xp",      at |-> 1000,
        msg |-> "Earned 1000 XP"],
       [id |-> "Streak_3",    of |-> "streak",  at |-> 3,
        msg |-> "3-day study streak"],
       [id |-> "Streak_7",    of |-> "streak",  at |-> 7,
        msg |-> "7-day study streak"],
       [id |-> "Streak_30",   of |-> "streak",  at |-> 30,
        msg |-> "30-day study streak"],
       [id |-> "Reviews_100", of |-> "reviews", at |-> 100,
        msg |-> "100 reviews completed"],
       [id |-> "Reviews_500", of |-> "reviews", at |-> 500,
        msg |-> "500 reviews completed"],
       [id |-> "Words_50",    of |-> "words",   at |-> 50,
        msg |-> "Added 50 words"] >>

\* the condition of table row `a` for progress p and a store of n words
ThresholdHolds(a, p, n) ==
    CASE a.of = "xp"      -> p.xp >= a.at
      [] a.of = "streak"  -> p.current_streak >= a.at
      [] a.of = "reviews" -> p.total_reviews >= a.at
      [] a.of = "words"   -> n >= a.at

\* mutant of Unlocked: the row is taken whether or not it was unlocked before
Unlocked_Again(a, p, n) == ThresholdHolds(a, p, n)

\* the loop's test: the condition holds and the identifier is not yet in
\* progress["achievements"]
Unlocked(a, p, n) ==
    /\ ThresholdHolds(a, p, n)
    /\ \A i \in 1..Len(p.achievements) : p.achievements[i] # a.id

\* the table rows check_achievements unlocks, in table order
NewRows(p, n) == SelectSeq(AchievementTable, LAMBDA a : Unlocked(a, p, n))

\* mutant of CheckAchievements: the unlocked list is replaced by the new
\* identifiers
CheckAchievements_Replacing(p, n) ==
    [progress |-> [p EXCEPT !.achievements =
                       [i \in 1..Len(NewRows(p, n)) |-> NewRows(p, n)[i].id]],
     ret |-> [i \in 1..Len(NewRows(p, n)) |-> NewRows(p, n)[i].msg]]

\* check_achievements: the progress it leaves and the list it returns
CheckAchievements(p, n) ==
    [progress |-> [p EXCEPT !.achievements =
                       @ \o [i \in 1..Len(NewRows(p, n)) |-> NewRows(p, n)[i].id]],
     ret |-> [i \in 1..Len(NewRows(p, n)) |-> NewRows(p, n)[i].msg]]

\* update_streak()
UpdateStreakCall ==
    /\ calls < MaxCalls
    /\ progress' = UpdateStreak(progress, now)
    /\ calls' = calls + 1
    /\ last' = [NoCall EXCEPT !.op = "streak", !.progress = progress]
    /\ disk' = IF progress.last_study_date # NoDate
                  /\ Strptime(progress.last_study_date) = now
               THEN disk
               ELSE SaveProgress(disk, progress')
    /\ UNCHANGED <<vocab, stats, now, scheduledOn, order, session>>

\* check_achievements()
CheckAchievementsCall ==
    /\ calls < MaxCalls
    /\ progress' = CheckAchievements(progress, Cardinality(DOMAIN vocab)).progress
    /\ calls' = calls + 1
    /\ last' = [NoCall EXCEPT
                  !.op = "achievements", !.progress = progress,
                  !.ret = CheckAchievements(progress,
                                            Cardinality(DOMAIN vocab)).ret]
    /\ disk' = IF CheckAchievements(progress, Cardinality(DOMAIN vocab)).ret # <<>>
               THEN SaveProgress(disk, progress')
               ELSE disk
    /\ UNCHANGED <<vocab, stats, now, scheduledOn, order, session>>

(***************************************************************************)
(* SpecTracker: update_streak and check_achievements called on a loaded    *)
(* progress file and a loaded store.                                       *)
(***************************************************************************)
\* a store of n words "w1" .. "wn"
BulkStore(n) ==
    [w \in {"w" \o ToString(i) : i \in 1..n} |->
        NewEntry("s", "", StartDay)]

TrackerStores == {BulkStore(49), BulkStore(50)}

TrackerProgress ==
    { [DefaultProgress EXCEPT !.current_streak = sl[1],
                              !.longest_streak = sl[2],
                              !.last_study_date = d,
                              !.studied_today = st,
                              !.xp = x,
                              !.total_reviews = r,
                              !.achievements = a] :
        sl \in {<<0, 0>>, <<1, 1>>, <<2, 6>>, <<6, 6>>, <<29, 29>>},
        d \in {NoDate} \cup {Strftime(StartDay - k) : k \in 0..2},
        st \in {0, 4},
        x \in {95, 100, 1000},
        r \in {99, 500},
        a \in {<<>>, <<"XP_100">>, <<"Streak_3", "XP_100", "Reviews_100">>} }

InitTracker ==
    /\ vocab \in TrackerStores
    /\ progress \in TrackerProgress
    /\ stats = DefaultStats
    /\ now = StartDay
    /\ calls = 0
    /\ scheduledOn = [w \in Words |-> NoDay]
    /\ order = <<>>
    /\ session = NoSession
    /\ disk = Loaded(vocab, progress, stats)
    /\ last = NoCall

NextTracker == UpdateStreakCall \/ CheckAchievementsCall \/ Tick

SpecTracker == InitTracker /\ [][NextTracker]_vars

\* the last operation was update_streak
JustStreaked == last.op = "streak"

\* C11: update_streak on the last study date leaves the whole progress
\* record as it was; on the day after the last study date it raises
\* current_streak by exactly 1; in every other case (a gap of two or more
\* days, or no last study date) current_streak becomes 1.
C11_StreakTransition ==
    JustStreaked =>
        LET pre == last.progress
        IN  IF pre.last_study_date = NoDate
            THEN progress.current_streak = 1
            ELSE IF pre.last_study_date = Strftime(now)
            THEN progress = pre
            ELSE IF pre.last_study_date = Strftime(now - 1)
            THEN progress.current_streak = pre.current_streak + 1
            ELSE progress.current_streak = 1

C11_Witness ==
    /\ JustStreaked
    /\ last.progress.last_study_date # NoDate
    /\ last.progress.last_study_date # Strftime(now)
    /\ last.progress.last_study_date # Strftime(now - 1)
    /\ last.progress.current_streak > 1
    /\ progress.current_streak = 1

\* the last operation was check_achievements
JustChecked == last.op = "achievements"

\* the rows of the table whose threshold holds for progress p and a store of
\* n words and whose identifier is not in p's achievements
Due(p, n) ==
    {k \in 1..Len(AchievementTable) :
        /\ ThresholdHolds(AchievementTable[k], p, n)
        /\ AchievementTable[k].id \notin Range(p.achievements)}

\* seq lists, in table order and once each, the `field` of the rows in rows
ListsRows(seq, rows, field) ==
    /\ Len(seq) = Cardinality(rows)
    /\ \A i \in 1..Len(seq) : \E k \in rows :
          /\ seq[i] = AchievementTable[k][field]
          /\ Cardinality({j \in rows : j < k}) = i - 1

\* C14 as stated: check_achievements returns, in table order, exactly the
\* identifiers of the achievements whose threshold holds at the call and
\* that were not unlocked before it, and adds them to the unlocked set.
C14_ReturnsIdentifiers ==
    JustChecked =>
        LET rows == Due(last.progress, Cardinality(DOMAIN vocab))
        IN  /\ ListsRows(last.ret, rows, "id")
            /\ Range(progress.achievements) =
                  Range(last.progress.achievements)
                     \cup {AchievementTable[k].id : k \in rows}

\* C14: check_achievements returns, in table order, exactly the messages of
\* the achievements whose threshold holds at the call and whose identifier
\* was not unlocked before it, and adds those identifiers to the unlocked
\* set; nothing is returned for an achievement unlocked before the call.
C14_ReturnsNewMessages ==
    JustChecked =>
        LET rows == Due(last.progress, Cardinality(DOMAIN vocab))
        IN  /\ ListsRows(last.ret, rows, "msg")
            /\ Range(progress.achievements) =
                  Range(last.progress.achievements)
                     \cup {AchievementTable[k].id : k \in rows}
            /\ \A k \in 1..Len(AchievementTable) :
                  AchievementTable[k].id \in Range(last.progress.achievements)
                     => AchievementTable[k].msg \notin Range(last.ret)

\* a call returns a message while the threshold of an achievement unlocked
\* by an earlier call still holds
C14_Witness ==
    /\ JustChecked
    /\ Len(last.ret) >= 1
    /\ \E i \in 4..Len(last.progress.achievements) :
          \E k \in 1..Len(AchievementTable) :
             /\ AchievementTable[k].id = last.progress.achievements[i]
             /\ ThresholdHolds(AchievementTable[k], last.progress,
                               Cardinality(DOMAIN vocab))

(***************************************************************************)
(* The study session of the GUI.                                           *)
(***************************************************************************)
\* the word on the card: plan[state["index"]]
CurrentWord == session.plan[session.index + 1]

\* start_session with `target` in the target entry
StartSession(target) ==
    /\ IF session.active \/ target <= 0
          \/ BuildStudyPlan(vocab, now, target) = <<>>
       THEN UNCHANGED <<session, last>>
       ELSE /\ session' = [NoSession EXCEPT
                             !.active = TRUE, !.open = TRUE,
                             !.plan = BuildStudyPlan(vocab, now, target),
                             !.reviews_at_start = progress.total_reviews]
            /\ last' = [NoCall EXCEPT !.op = "start"]
    /\ UNCHANGED <<vocab, progress, stats, now, calls, scheduledOn, order, disk>>

\* mutant of Answered: a wrong answer is not counted as a review
Answered_RightOnesCounted(data, is_correct, day) ==
    [data EXCEPT
        !.times_correct = IF is_correct THEN @ + 1 ELSE @,
        !.times_reviewed = IF is_correct THEN @ ELSE @ + 1,
        !.history = Append(@, [date |-> Strftime(day), correct |-> is_correct])]

\* the entry of the word on the card as submit leaves it
Answered(data, is_correct, day) ==
    [data EXCEPT
        !.times_correct = IF is_correct THEN @ + 1 ELSE @,
        !.times_reviewed = @ + 1,
        !.history = Append(@, [date |-> Strftime(day), correct |-> is_correct])]

\* submit with `guess` in the answer entry; when the word on the card is no
\* longer a key, core.vocab[word] raises KeyError after answered was set
Submit(guess) ==
    LET word == CurrentWord
        is_correct == Lower(guess) = Lower(word)
    IN  /\ session.open
        /\ ~session.answered
        /\ IF word \in DOMAIN vocab
           THEN /\ calls < MaxReviews
                /\ vocab' = [vocab EXCEPT ![word] = Answered(@, is_correct, now)]
                /\ progress' = [progress EXCEPT !.total_reviews = @ + 1]
                /\ session' = [session EXCEPT
                                 !.answered = TRUE, !.can_rate = TRUE,
                                 !.reviewed = @ + 1,
                                 !.correct = IF is_correct THEN @ + 1 ELSE @]
                /\ last' = [NoCall EXCEPT !.op = "submit"]
           ELSE /\ session' = [session EXCEPT !.answered = TRUE]
                /\ last' = [NoCall EXCEPT !.op = "submit",
                                          !.result = "KeyError"]
                /\ UNCHANGED <<vocab, progress>>
        /\ UNCHANGED <<stats, now, calls, scheduledOn, order, disk>>

\* mutant of RecordSession: every answered card earns 5 XP
RecordSession_XpPerReview(mid, st, day) ==
    [mid EXCEPT !.studied_today = @ + st.reviewed,
                !.xp = @ + st.reviewed * 5,
                !.history = HistAdd(@, Strftime(day), st.reviewed)]

\* progress as finish_session leaves it for a session state st on day `day`
\* with n words in the store, after its update_streak left `mid`
RecordSession(mid, st, day) ==
    [mid EXCEPT !.studied_today = @ + st.reviewed,
                !.xp = @ + st.correct * 5,
                !.history = HistAdd(@, Strftime(day), st.reviewed)]

FinishSession(p, st, day, n) ==
    CheckAchievements(RecordSession(UpdateStreak(p, day), st, day), n).progress

\* rate(rating): schedule the word on the card, then the next card or, after
\* the last one, finish_session.  schedule_next_review does nothing for a
\* word that is no longer a key; load_study_word raises KeyError for one,
\* after index was advanced and before can_rate and answered are reset.
Rate(rating) ==
    LET word == CurrentWord
    IN  /\ session.open
        /\ session.can_rate
        /\ IF word \in DOMAIN vocab
           THEN /\ \E iv \in NextIntervals(vocab[word].interval,
                                           NewEase(vocab[word].ease, rating),
                                           rating) :
                     vocab' = [vocab EXCEPT
                                 ![word] = Scheduled(vocab[word], rating, iv, now)]
                /\ calls' = calls + 1
                /\ scheduledOn' = [scheduledOn EXCEPT ![word] = now]
           ELSE UNCHANGED <<vocab, calls, scheduledOn>>
        /\ IF session.index + 1 >= Len(session.plan)
           THEN /\ progress' = FinishSession(progress, session, now,
                                             Cardinality(DOMAIN vocab))
                /\ session' = NoSession
                /\ disk' = SaveProgress(SaveVocab(disk, vocab'), progress')
                /\ last' = [NoCall EXCEPT
                              !.op = "finish", !.word = word,
                              !.arg = <<session.reviewed, session.correct,
                                        session.reviews_at_start>>,
                              !.progress = progress,
                              !.mid = UpdateStreak(progress, now)]
           ELSE /\ IF session.plan[session.index + 2] \in DOMAIN vocab
                   THEN /\ session' = [session EXCEPT !.index = @ + 1,
                                                      !.can_rate = FALSE,
                                                      !.answered = FALSE]
                        /\ last' = [NoCall EXCEPT !.op = "rate", !.word = word]
                   ELSE /\ session' = [session EXCEPT !.index = @ + 1]
                        /\ last' = [NoCall EXCEPT !.op = "rate", !.word = word,
                                                  !.result = "KeyError"]
                /\ disk' = SaveVocab(disk, vocab')
                /\ UNCHANGED progress
        /\ UNCHANGED <<stats, now, order>>

\* the session window is closed by its title bar: the window is destroyed,
\* session_active stays True
CloseSessionWindow ==
    /\ session.open
    /\ session' = [session EXCEPT !.open = FALSE]
    /\ last' = [NoCall EXCEPT !.op = "close"]
    /\ UNCHANGED <<vocab, progress, stats, now, calls, scheduledOn, order, disk>>

\* on_close, the handler of the main window's close button: save_vocab,
\* save_progress, save_stats, then root.destroy().  `failing` is the save
\* that raises ("none": all three complete).  An exception leaves on_close
\* before root.destroy(), so the application keeps running; otherwise the
\* application ends and is started again: the three files are loaded and
\* no session is active.  The restarts count among the bounded calls.
Files == <<"vocab", "progress", "stats">>
OnClose(failing) ==
    /\ \/ /\ failing = "none"
          /\ calls < MaxReviews
          /\ calls' = calls + 1
          /\ disk' = SaveStats(SaveProgress(SaveVocab(disk, vocab), progress),
                               stats)
          /\ session' = NoSession
       \/ /\ failing = "vocab"
          /\ disk' \in FailedSave(disk, "vocab")
          /\ UNCHANGED <<session, calls>>
       \/ /\ failing = "progress"
          /\ disk' \in FailedSave(SaveVocab(disk, vocab), "progress")
          /\ UNCHANGED <<session, calls>>
       \/ /\ failing = "stats"
          /\ disk' \in FailedSave(SaveProgress(SaveVocab(disk, vocab), progress),
                                  "stats")
          /\ UNCHANGED <<session, calls>>
    /\ last' = [NoCall EXCEPT
                  !.op = "on_close", !.word = failing, !.disk = disk,
                  !.result = IF failing = "none" THEN "" ELSE "OSError"]
    /\ UNCHANGED <<vocab, progress, stats, now, scheduledOn, order>>

(***************************************************************************)
(* SpecApp: study sessions of the GUI on a store of two words, from the    *)
(* default progress or from the progress of a learner who has studied on   *)
(* the two days before StartDay.                                           *)
(***************************************************************************)
Guesses == {"ant", "bee"}
\* the rating button pressed: Good
SessionRatings == {3}

AppStore == [w \in {"ant", "bee"} |-> IF w = "ant" THEN FreshEntry ELSE MatureEntry]

\* 99 reviews, 19 of them right, on the two days before StartDay
ReturningProgress ==
    [DefaultProgress EXCEPT
        !.current_streak = 2, !.longest_streak = 2,
        !.last_study_date = Strftime(StartDay - 1),
        !.total_reviews = 99, !.studied_today = 59, !.xp = 95,
        !.history = HistAdd(HistAdd(<<>>, Strftime(StartDay - 2), 40),
                            Strftime(StartDay - 1), 59)]

InitApp ==
    /\ vocab = AppStore
    /\ progress \in {DefaultProgress, ReturningProgress}
    /\ stats = DefaultStats
    /\ now = StartDay
    /\ calls = 0
    /\ scheduledOn = [w \in Words |-> NoDay]
    /\ order = KeysInOrder(vocab)
    /\ session = NoSession
    /\ disk = Loaded(vocab, progress, stats)
    /\ last = NoCall

NextApp ==
    \/ \E t \in Targets : StartSession(t)
    \/ \E g \in Guesses : Submit(g)
    \/ \E q \in SessionRatings : Rate(q)
    \/ CloseSessionWindow
    \/ Tick

SpecApp == InitApp /\ [][NextApp]_vars

(***************************************************************************)
(* SpecSave: study sessions on the store of SpecApp, on one day, with the  *)
(* main window closed (and the application started again) at any point,    *)
(* each save of on_close completing or failing.                            *)
(***************************************************************************)
NextSave ==
    \/ \E t \in Targets : StartSession(t)
    \/ \E g \in Guesses : Submit(g)
    \/ \E q \in SessionRatings : Rate(q)
    \/ CloseSessionWindow
    \/ \E f \in {"none"} \cup Range(Files) : OnClose(f)

SpecSave == InitApp /\ [][NextSave]_vars

\* the last operation was the rate call that ended a session
JustFinished == last.op = "finish"

\* C12: from the default progress, longest_streak >= current_streak in
\* every reachable state, and longest_streak never decreases.
C12_LongestStreak ==
    /\ [](progress.longest_streak >= progress.current_streak)
    /\ [][progress'.longest_streak >= progress.longest_streak]_vars

\* a session after a gap: the streak is back at 1 below the longest streak
C12_Witness ==
    /\ JustFinished
    /\ progress.current_streak = 1
    /\ progress.longest_streak > 1
    /\ last.progress.current_streak > 1

\* the number of consecutive days ending at `day` with a positive count in
\* the per-day history h
RECURSIVE StudiedRun(_, _)
StudiedRun(h, day) ==
    IF HistGet(h, Strftime(day)) > 0 THEN 1 + StudiedRun(h, day - 1) ELSE 0

C15_Monotone ==
    [][/\ progress'.xp >= progress.xp
       /\ progress'.total_reviews >= progress.total_reviews
       /\ Range(progress.achievements) \subseteq Range(progress'.achievements)
       /\ NoDuplicates(progress'.achievements)]_vars

\* a session that earns XP ends while achievements are already unlocked
C15_Witness ==
    /\ JustFinished
    /\ Len(last.progress.achievements) >= 1
    /\ progress.xp > last.progress.xp
    /\ progress.total_reviews > 99

Strip(s) ==
    CASE s = " "     -> ""
      [] s = " ant " -> "ant"
      [] s = " s "   -> "s"
      [] s = " n "   -> "n"
      [] OTHER       -> s

RawWords == {" ", " ant ", "Ant", "bee"}
RawSentences == {"", " s "}
RawNotes == {" n "}
\* the rating passed to schedule_next_review between the edits: Good
StoreRatings == {3}

\* mutant of Rejected: the duplicate test compares the keys as they are
Rejected_CaseSensitive(word, sentence, v) ==
    \/ word = ""
    \/ sentence = ""
    \/ word \in DOMAIN v

\* mutant of Rejected: no duplicate test
Rejected_NoDuplicateTest(word, sentence, v) ==
    \/ word = ""
    \/ sentence = ""

\* the tests of add_word_gui_logic on the stripped word and sentence
Rejected(word, sentence, v) ==
    \/ word = ""
    \/ sentence = ""
    \/ Lower(word) \in {Lower(w) : w \in DOMAIN v}

\* add_word_gui_logic(word, sentence, note)
AddWord(word, sentence, note) ==
    /\ last' = [NoCall EXCEPT
                  !.op = "add", !.arg = <<word, sentence, note>>,
                  !.ok = ~Rejected(Strip(word), Strip(sentence), vocab),
                  !.vocab = vocab, !.order = order, !.stats = stats]
    /\ IF Rejected(Strip(word), Strip(sentence), vocab)
       THEN UNCHANGED <<vocab, order, stats, disk>>
       ELSE /\ stats.words_added < MaxAdds
            /\ vocab' = [w \in DOMAIN vocab \cup {Strip(word)} |->
                            IF w = Strip(word)
                            THEN NewEntry(Strip(sentence), Strip(note), now)
                            ELSE vocab[w]]
            /\ order' = Append(order, Strip(word))
            /\ stats' = [stats EXCEPT !.words_added = @ + 1]
            /\ disk' = SaveStats(SaveVocab(disk, vocab'), stats')
    /\ UNCHANGED <<progress, now, calls, scheduledOn, session>>

\* remove_word(word): the loop body returns in its first round unless the
\* first key matches, and then the loop is left without saving or counting
RemoveWord(word) ==
    /\ IF order = <<>>
       THEN /\ last' = [NoCall EXCEPT
                          !.op = "remove", !.word = word, !.ok = FALSE,
                          !.vocab = vocab, !.order = order, !.stats = stats]
            /\ UNCHANGED <<vocab, order, stats, disk>>
       ELSE IF Lower(order[1]) = Lower(word)
       THEN /\ last' = [NoCall EXCEPT
                          !.op = "remove", !.word = word, !.ok = FALSE,
                          !.vocab = vocab, !.order = order, !.stats = stats]
            /\ vocab' = [w \in DOMAIN vocab \ {order[1]} |-> vocab[w]]
            /\ order' = Tail(order)
            /\ UNCHANGED <<stats, disk>>
       ELSE /\ stats.words_removed < MaxRemoves
            /\ last' = [NoCall EXCEPT
                          !.op = "remove", !.word = word, !.ok = TRUE,
                          !.vocab = vocab, !.order = order, !.stats = stats]
            /\ stats' = [stats EXCEPT !.words_removed = @ + 1]
            /\ disk' = SaveStats(SaveVocab(disk, vocab), stats')
            /\ UNCHANGED <<vocab, order>>
    /\ UNCHANGED <<progress, now, calls, scheduledOn, session>>

\* mutant of EditWord: the edited entry is made due today
EditWord_Resetting(word, sentence, note) ==
    /\ last' = [NoCall EXCEPT
                  !.op = "edit", !.word = word, !.ok = word \in DOMAIN vocab,
                  !.vocab = vocab, !.order = order, !.stats = stats]
    /\ IF word \in DOMAIN vocab
       THEN /\ vocab' = [vocab EXCEPT ![word].sentence = Strip(sentence),
                                   ![word].note = Strip(note),
                                   ![word].next_review = Strftime(now)]
            /\ disk' = SaveVocab(disk, vocab')
       ELSE UNCHANGED <<vocab, disk>>
    /\ UNCHANGED <<progress, stats, now, calls, scheduledOn, order, session>>

\* edit_word(word, new_sentence, new_note)
EditWord(word, sentence, note) ==
    /\ last' = [NoCall EXCEPT
                  !.op = "edit", !.word = word, !.ok = word \in DOMAIN vocab,
                  !.vocab = vocab, !.order = order, !.stats = stats]
    /\ IF word \in DOMAIN vocab
       THEN /\ vocab' = [vocab EXCEPT ![word].sentence = Strip(sentence),
                                      ![word].note = Strip(note)]
            /\ disk' = SaveVocab(disk, vocab')
       ELSE UNCHANGED <<vocab, disk>>
    /\ UNCHANGED <<progress, stats, now, calls, scheduledOn, order, session>>

(***************************************************************************)
(* SpecWords: add, remove, edit and schedule from an empty store, on one   *)
(* day.                                                                    *)
(***************************************************************************)
InitWords ==
    /\ vocab = <<>>
    /\ progress = DefaultProgress
    /\ stats = DefaultStats
    /\ now \in {StartDay, StartDay + 2}
    /\ calls = 0
    /\ scheduledOn = [w \in Words |-> NoDay]
    /\ order = <<>>
    /\ session = NoSession
    /\ disk = Loaded(vocab, progress, stats)
    /\ last = NoCall

NextWords ==
    \/ \E w \in RawWords : \E s \in RawSentences : \E n \in RawNotes :
          AddWord(w, s, n)
    \/ \E w \in Words : RemoveWord(w)
    \/ \E w \in Words : \E s \in RawSentences : \E n \in RawNotes :
          EditWord(w, s, n)
    \/ \E w \in Words : \E q \in StoreRatings : Schedule(w, q)

SpecWords == InitWords /\ [][NextWords]_vars

\* the keys of store v equal to word ignoring case
Matches(v, word) == {k \in DOMAIN v : Lower(k) = Lower(word)}

\* C18: remove_word(word) deletes the entry whose key equals word ignoring
\* case, wherever it is in the store, leaves every other entry as it was and
\* returns True; when no key matches it returns False and leaves the
\* vocabulary and the stats counters as they were.
C18_RemoveContract ==
    last.op = "remove" =>
        IF Matches(last.vocab, last.word) # {}
        THEN /\ last.ok
             /\ DOMAIN vocab = DOMAIN last.vocab \ Matches(last.vocab, last.word)
             /\ \A w \in DOMAIN vocab : vocab[w] = last.vocab[w]
        ELSE /\ ~last.ok
             /\ vocab = last.vocab
             /\ stats = last.stats

\* the last operation was add_word_gui_logic
JustAdded == last.op = "add"

\* C19: add_word_gui_logic returns False and leaves the vocabulary and the
\* stats counters as they were whenever the word or the sentence is empty
\* after stripping, or a key of the store equals the stripped word ignoring
\* case.
C19_AddRejected ==
    (/\ JustAdded
     /\ \/ Strip(last.arg[1]) = ""
        \/ Strip(last.arg[2]) = ""
        \/ Matches(last.vocab, Strip(last.arg[1])) # {})
    => /\ ~last.ok
       /\ vocab = last.vocab
       /\ order = last.order
       /\ stats = last.stats

\* a word is refused for a key that differs from it in case only
C19_Witness ==
    /\ JustAdded
    /\ ~last.ok
    /\ Strip(last.arg[1]) # ""
    /\ Strip(last.arg[2]) # ""
    /\ Strip(last.arg[1]) \notin DOMAIN last.vocab
    /\ Matches(last.vocab, Strip(last.arg[1])) # {}

\* C20: from an empty store, after any sequence of add, remove, edit and
\* schedule calls, no two keys are equal ignoring case and no key is empty.
C20_KeysUnique ==
    /\ CaseUnique(DOMAIN vocab)
    /\ "" \notin DOMAIN vocab

\* "ant" was added and removed, "Ant" added in its place, and the store
\* has been edited and scheduled
C20_Witness ==
    /\ "Ant" \in DOMAIN vocab
    /\ stats.words_added >= 2
    /\ vocab["Ant"].sentence = ""
    /\ scheduledOn["Ant"] # NoDay
    /\ last.op = "remove"

\* C21: a successful add_word_gui_logic creates exactly one new entry, with
\* box 1, times_reviewed 0, times_correct 0, ease 2.5, interval 1, an empty
\* history, no last_reviewed and next_review = the day of the call, leaves
\* every other entry as it was, and the new word is due at once.
C21_AddDefaults ==
    (JustAdded /\ last.ok) =>
        LET word == Strip(last.arg[1])
        IN  /\ word \notin DOMAIN last.vocab
            /\ DOMAIN vocab = DOMAIN last.vocab \cup {word}
            /\ \A w \in DOMAIN last.vocab : vocab[w] = last.vocab[w]
            /\ vocab[word].box = 1
            /\ vocab[word].times_reviewed = 0
            /\ vocab[word].times_correct = 0
            /\ vocab[word].ease = 250
            /\ vocab[word].interval = 1
            /\ vocab[word].history = <<>>
            /\ vocab[word].last_reviewed = NoDate
            /\ vocab[word].next_review = Strftime(now)
            /\ word \in GetDueWords(vocab, now)

\* a word is added to a store that holds a scheduled entry
C21_Witness ==
    /\ JustAdded
    /\ last.ok
    /\ \E w \in DOMAIN last.vocab : last.vocab[w].interval = 3

(***************************************************************************)
(* SpecFrame: words are added and edited in the main window while study    *)
(* sessions run (start_session calls build_study_plan, rate calls          *)
(* schedule_next_review and, after the last card, finish_session with its  *)
(* update_streak and check_achievements), on one day, from a store of one  *)
(* word.                                                                   *)
(***************************************************************************)
InitFrame ==
    /\ vocab = [w \in {"bee"} |-> MatureEntry]
    /\ progress = [ReturningProgress EXCEPT !.xp = 100]
    /\ stats = DefaultStats
    /\ now = StartDay
    /\ calls = 0
    /\ scheduledOn = [w \in Words |-> NoDay]
    /\ order = KeysInOrder(vocab)
    /\ session = NoSession
    /\ disk = Loaded(vocab, progress, stats)
    /\ last = NoCall

NextFrame ==
    \/ \E w \in RawWords : \E s \in RawSentences : \E n \in RawNotes :
          AddWord(w, s, n)
    \/ \E w \in Words : \E s \in RawSentences : \E n \in RawNotes :
          EditWord(w, s, n)
    \/ \E t \in Targets : StartSession(t)
    \/ \E g \in Guesses : Submit(g)
    \/ \E q \in SessionRatings : Rate(q)

SpecFrame == InitFrame /\ [][NextFrame]_vars

\* the scheduling fields of an entry, and the fields edit_word may not write
SchedulingFields(data) == <<data.ease, data.interval, data.next_review, data.box>>
Unedited(data) ==
    <<data.box, data.times_reviewed, data.times_correct, data.ease,
      data.history, data.last_reviewed, data.next_review, data.interval>>

\* the step was a schedule_next_review call, direct or from rate
ScheduleStep(op) == op \in {"schedule", "rate", "finish"}

\* C22: in every step, a scheduling field (ease, interval, next_review, box)
\* of a stored entry changes only in a schedule call on that entry, and that
\* call changes no field of any other entry; edit_word changes nothing but
\* sentence and note of the named entry.  So submit, update_streak,
\* check_achievements and build_study_plan change no scheduling field.
C22_SchedulingFrame ==
    [][\A w \in DOMAIN vocab \cap DOMAIN vocab' :
          /\ SchedulingFields(vocab'[w]) # SchedulingFields(vocab[w])
                => (ScheduleStep(last'.op) /\ last'.word = w)
          /\ (ScheduleStep(last'.op) /\ last'.word # w)
                => vocab'[w] = vocab[w]
          /\ last'.op = "edit"
                => /\ Unedited(vocab'[w]) = Unedited(vocab[w])
                   /\ w # last'.word => vocab'[w] = vocab[w]]_vars

\* an entry that has been answered and scheduled is edited
C22_Witness ==
    /\ last.op = "edit"
    /\ last.ok
    /\ vocab[last.word].sentence # last.vocab[last.word].sentence
    /\ scheduledOn[last.word] # NoDay
    /\ Len(vocab[last.word].history) >= 1
    /\ Cardinality(DOMAIN vocab) >= 2

\* C23: after any sequence of add_word_gui_logic and edit_word calls, the
\* sentence of every entry is non-empty.
C23_SentenceNonEmpty ==
    \A w \in DOMAIN vocab : vocab[w].sentence # ""

\* C24: after any sequence of answered cards, ratings and sessions, every
\* entry has 0 <= times_correct <= times_reviewed.
C24_CorrectAtMostReviewed ==
    \A w \in DOMAIN vocab :
        /\ 0 <= vocab[w].times_correct
        /\ vocab[w].times_correct <= vocab[w].times_reviewed

\* the new word was answered right once and the other word wrong once
C24_Witness ==
    /\ JustFinished
    /\ vocab["ant"].times_reviewed = 1
    /\ vocab["ant"].times_correct = 1
    /\ vocab["bee"].times_reviewed = MatureEntry.times_reviewed + 1
    /\ vocab["bee"].times_correct = MatureEntry.times_correct

Clamp(x, lo, hi) == IF x < lo THEN lo ELSE IF x > hi THEN hi ELSE x

\* C25: schedule sets box to clamp(box + 1, 1, 5) when q >= 3 and to
\* clamp(box - 1, 1, 5) when q < 3, so every entry's box stays in 1..5.
C25_BoxClamped ==
    /\ JustScheduled =>
          vocab[last.word].box =
              IF last.rating >= 3 THEN Clamp(last.pre.box + 1, 1, 5)
              ELSE Clamp(last.pre.box - 1, 1, 5)
    /\ \A w \in DOMAIN vocab : vocab[w].box \in 1..5

\* a Good/Easy rating on an entry in box 5 leaves it in box 5
C25_Witness ==
    /\ JustScheduled
    /\ last.rating >= 3
    /\ last.pre.box = 5
    /\ vocab[last.word].box = 5

\* the change of ease before the floor, in hundredths: -0.54, -0.32, -0.14, 0
EaseChange(q) ==
    CASE q = 1 -> -54 [] q = 2 -> -32 [] q = 3 -> -14 [] q = 4 -> 0

\* C26: schedule sets ease to max(1.3, ease + d) with d = -0.54, -0.32,
\* -0.14, 0 for q = 1, 2, 3, 4; a rating of 4 never lowers ease, no rating
\* raises an ease that is >= 1.3, and no entry has ease above 2.5 (every
\* entry starts at or below the 2.5 of a new entry).
C26_EaseRule ==
    /\ (JustScheduled /\ last.rating \in 1..4) =>
          /\ vocab[last.word].ease =
                Max(130, last.pre.ease + EaseChange(last.rating))
          /\ last.rating = 4 => vocab[last.word].ease >= last.pre.ease
          /\ last.pre.ease >= 130 => vocab[last.word].ease <= last.pre.ease
    /\ \A w \in DOMAIN vocab : vocab[w].ease <= 250

\* a rating of 4 on an entry whose ease was lowered before leaves it there
C26_Witness ==
    /\ JustScheduled
    /\ last.rating = 4
    /\ last.pre.ease > 130
    /\ last.pre.ease < 250
    /\ vocab[last.word].ease = last.pre.ease

\* C27: schedule on a word that is not a key changes nothing in the
\* vocabulary, the progress and the stats, and the caller is told that the
\* word was not found: it gets a result other than that of a call that found
\* the word.
C27_MissingWordReported ==
    (last.op = "schedule" /\ ~last.found) =>
        /\ vocab = last.vocab
        /\ progress = last.progress
        /\ stats = last.stats
        /\ last.result # ScheduleResult(TRUE)

(***************************************************************************)
(* SpecRatings: schedule_next_review called with any integer rating from   *)
(* 0 to 5 on the stores of LoadedStores.                                   *)
(***************************************************************************)
AnyRatings == 0..5

NextRatings == \E w \in Words : \E q \in AnyRatings : Schedule(w, q)

SpecRatings == Init /\ [][NextRatings]_vars

\* C28: schedule with a rating outside 1..4 fails with InvalidRating and
\* leaves ease, interval, next_review and box of the entry as they were.
C28_InvalidRatingRejected ==
    (JustScheduled /\ last.rating \notin 1..4) =>
        /\ last.result = "InvalidRating"
        /\ SchedulingFields(vocab[last.word]) = SchedulingFields(last.pre)

(***************************************************************************)
(* get_due_count and suggested_daily_target.                               *)
(***************************************************************************)
GetDueCount(v, day) == Cardinality(GetDueWords(v, day))

\* mutant of SuggestedDailyTarget: no max(5, ...)
SuggestedDailyTarget_NoFloor(v, day) == Min(20, GetDueCount(v, day))

\* max(5, min(20, due))
SuggestedDailyTarget(v, day) == Max(5, Min(20, GetDueCount(v, day)))

\* suggested_daily_target()
SuggestTarget ==
    /\ last' = [NoCall EXCEPT !.op = "target",
                              !.ret = SuggestedDailyTarget(vocab, now)]
    /\ UNCHANGED <<vocab, progress, stats, now, calls, scheduledOn, order, session, disk>>

(***************************************************************************)
(* SpecTarget: suggested_daily_target on stores of up to 25 words, some    *)
(* due at StartDay and the others two days later.                          *)
(***************************************************************************)
\* n words "w1" .. "wn"; the first k are due on StartDay, the others on
\* StartDay + 2
MixedStore(n, k) ==
    [w \in {"w" \o ToString(i) : i \in 1..n} |->
        IF w \in {"w" \o ToString(i) : i \in 1..k}
        THEN NewEntry("s", "", StartDay)
        ELSE NewEntry("s", "", StartDay + 2)]

TargetStores ==
    {MixedStore(n, k) : n \in {0, 4, 6, 21, 25}, k \in {0, 4, 5, 20, 21}}

InitTarget ==
    /\ vocab \in TargetStores
    /\ progress = DefaultProgress
    /\ stats = DefaultStats
    /\ now = StartDay
    /\ calls = 0
    /\ scheduledOn = [w \in Words |-> NoDay]
    /\ order = <<>>
    /\ session = NoSession
    /\ disk = Loaded(vocab, progress, stats)
    /\ last = NoCall

NextTarget == SuggestTarget \/ Tick

SpecTarget == InitTarget /\ [][NextTarget]_vars

\* the last operation was suggested_daily_target
JustSuggested == last.op = "target"

\* C29: suggested_daily_target is the number of entries whose next_review
\* is <= today (the size of get_due_words) clamped to 5..20, hence always
\* between 5 and 20, also for a store of fewer than 5 entries.
C29_TargetClamped ==
    JustSuggested =>
        LET due == {w \in DOMAIN vocab :
                       Strptime(vocab[w].next_review) <= now}
        IN  /\ due = GetDueWords(vocab, now)
            /\ last.ret = Clamp(Cardinality(due), 5, 20)
            /\ last.ret \in 5..20

\* a store of four words, all due: the target is 5
C29_Witness ==
    /\ JustSuggested
    /\ Cardinality(DOMAIN vocab) = 4
    /\ Cardinality(GetDueWords(vocab, now)) = 4
    /\ last.ret = 5

(***************************************************************************)
(* upgrade_vocab_schema.  An entry of the vocabulary file is a dict that   *)
(* may lack fields: a function from the fields it has to their values.     *)
(***************************************************************************)
\* the keys of `defaults`
Fields ==
    {"sentence", "note", "box", "times_reviewed", "times_correct", "ease",
     "history", "last_reviewed", "next_review", "interval"}

\* mutant of Heal: next_review is set to today in every entry
Heal_Restamping(data, day) ==
    [f \in Fields |->
        IF f \in DOMAIN data /\ f # "next_review" THEN data[f]
        ELSE NewEntry("", "", day)[f]]

\* the entry as the inner loop leaves it on day `day`: every key of
\* `defaults` that is not in the entry is set to its default
Heal(data, day) ==
    [f \in Fields \cup DOMAIN data |->
        IF f \in DOMAIN data THEN data[f] ELSE NewEntry("", "", day)[f]]

\* upgrade_vocab_schema()
UpgradeVocabSchema ==
    /\ vocab' = [w \in DOMAIN vocab |-> Heal(vocab[w], now)]
    /\ last' = [NoCall EXCEPT !.op = "upgrade", !.vocab = vocab]
    /\ disk' = IF \E w \in DOMAIN vocab : Fields \ DOMAIN vocab[w] # {}
               THEN SaveVocab(disk, vocab')
               ELSE disk
    /\ UNCHANGED <<progress, stats, now, calls, scheduledOn, order, session>>

(***************************************************************************)
(* SpecHeal: upgrade_vocab_schema on vocabulary files written under older  *)
(* schemas.                                                                *)
(***************************************************************************)
\* the entry `data` with the fields of S only
Only(data, S) == [f \in S |-> data[f]]

FileEntries ==
    { Only(FloorEntry, {}),
      Only(FloorEntry, {"sentence", "note"}),
      Only(FloorEntry, {"sentence", "note", "box", "ease"}),
      Only(FloorEntry, Fields \ {"next_review"}),
      Only(MatureEntry, Fields \ {"history", "last_reviewed"}),
      MatureEntry }

FileStores == {[w \in {"ant", "bee"} |-> IF w = "ant" THEN a ELSE b] :
                  a \in FileEntries, b \in FileEntries}

InitHeal ==
    /\ vocab \in FileStores
    /\ progress = DefaultProgress
    /\ stats = DefaultStats
    /\ now = StartDay
    /\ calls = 0
    /\ scheduledOn = [w \in Words |-> NoDay]
    /\ order = KeysInOrder(vocab)
    /\ session = NoSession
    /\ disk = Loaded(vocab, progress, stats)
    /\ last = NoCall

NextHeal == UpgradeVocabSchema \/ Tick

SpecHeal == InitHeal /\ [][NextHeal]_vars

\* the last operation was upgrade_vocab_schema
JustUpgraded == last.op = "upgrade"

\* C30: upgrade_vocab_schema gives every field an entry lacks its default
\* and changes no field the entry has; afterwards every entry has all
\* fields, an entry that had them all is as it was, and a second call
\* (on any later day) changes nothing.
C30_HealingOnlyFills ==
    JustUpgraded =>
        /\ DOMAIN vocab = DOMAIN last.vocab
        /\ \A w \in DOMAIN vocab :
              /\ DOMAIN vocab[w] = Fields
              /\ \A f \in Fields :
                    vocab[w][f] =
                        IF f \in DOMAIN last.vocab[w] THEN last.vocab[w][f]
                        ELSE NewEntry("", "", now)[f]
              /\ DOMAIN last.vocab[w] = Fields => vocab[w] = last.vocab[w]
        /\ (\A w \in DOMAIN last.vocab : DOMAIN last.vocab[w] = Fields)
              => vocab = last.vocab

\* a second call on a later day leaves the next_review the first call set
C30_Witness ==
    /\ JustUpgraded
    /\ vocab = last.vocab
    /\ now > StartDay
    /\ \E w \in DOMAIN vocab :
          /\ vocab[w].next_review = Strftime(StartDay)
          /\ vocab[w].ease = FloorEntry.ease
          /\ vocab[w].interval = FloorEntry.interval

\* C38: from an empty vocabulary and zeroed stats, after any sequence of add
\* and remove calls, words_added - words_removed equals the number of
\* entries of the vocabulary.
C38_NetCount ==
    stats.words_added - stats.words_removed = Cardinality(DOMAIN vocab)

\* C33: when add, remove, edit or schedule has returned, the vocabulary file
\* holds the in-memory vocabulary.
C33_PersistedOnReturn ==
    last.op \in {"add", "remove", "edit", "schedule"} => disk.vocab = vocab

\* C35: a session that has ended, by the rating of its last word or by the
\* closing of its window, has reset session_active: the flag is set only
\* while the session window exists, so that start_session is not refused
\* for a session that is over.
C35_EndedSessionReset == session.active => session.open

RECURSIVE SumOver(_, _)
SumOver(h, S) ==
    IF S = {} THEN 0
    ELSE LET k == CHOOSE x \in S : TRUE IN h[k] + SumOver(h, S \ {k})

\* the sum of the per-day counts of progress["history"]
HistSum(h) == SumOver(h, DOMAIN h)

\* C37: whenever no session is active, total_reviews equals the sum of the
\* per-day review counts of the progress history.
C37_ReviewsMatchHistory ==
    ~session.active => progress.total_reviews = HistSum(progress.history)

\* C31: a save that fails leaves in its file the complete dataset the file
\* held before the save, and the failure reaches the caller.
C31_SaveAllOrNothing ==
    (last.op = "on_close" /\ last.word # "none") =>
        /\ disk[last.word] = last.disk[last.word]
        /\ disk[last.word] # Torn
        /\ last.result # ""

(***************************************************************************)
(* SpecDesk: the main window stays usable while the session window is      *)
(* open, so its add, edit and delete buttons interleave with the session's *)
(* submit and rate; on one day, from the store of SpecApp and the default  *)
(* progress.                                                               *)
(***************************************************************************)
\* the rows of the word table that get selected, and the word typed into
\* the add form
DeskWords == {"ant", "bee"}
DeskRawWords == {"bee"}

InitDesk ==
    /\ vocab = AppStore
    /\ progress = DefaultProgress
    /\ stats = DefaultStats
    /\ now = StartDay
    /\ calls = 0
    /\ scheduledOn = [w \in Words |-> NoDay]
    /\ order = KeysInOrder(vocab)
    /\ session = NoSession
    /\ disk = Loaded(vocab, progress, stats)
    /\ last = NoCall

NextDesk ==
    \/ \E w \in DeskRawWords : \E s \in RawSentences : \E n \in RawNotes :
          AddWord(w, s, n)
    \/ \E w \in DeskWords : \E s \in RawSentences : \E n \in RawNotes :
          EditWord(w, s, n)
    \/ \E w \in DeskWords : RemoveWord(w)
    \/ \E t \in Targets : StartSession(t)
    \/ \E g \in Guesses : Submit(g)
    \/ \E q \in SessionRatings : Rate(q)

SpecDesk == InitDesk /\ [][NextDesk]_vars

\* C34: while a study session is in progress every word of its plan is a
\* key of the vocabulary, whatever the main window's delete, add and edit
\* buttons do in between.
C34_PlanWordsAreKeys ==
    session.open => \A i \in 1..Len(session.plan) : session.plan[i] \in DOMAIN vocab

\* C36: within a session the cards are visited in plan order; the session
\* moves on from a card, to the next card or to finish_session, only by a
\* rating that follows a submitted answer for that card, with one answer
\* counted for it and the rating applied to its word; finish_session runs
\* once, on the rating of the last card, and nowhere else.
C36_SessionOrder ==
    [][ /\ (session.open /\ session'.open /\ session'.index # session.index)
             => /\ session'.index = session.index + 1
                /\ session.answered /\ session.can_rate
                /\ session.reviewed = session.index + 1
                /\ calls' = calls + 1
                /\ scheduledOn'[CurrentWord] = now
                /\ ~session'.answered /\ ~session'.can_rate
        /\ (session.active /\ ~session'.active)
             => /\ session.index + 1 = Len(session.plan)
                /\ session.answered /\ session.can_rate
                /\ session.reviewed = Len(session.plan)
                /\ calls' = calls + 1
                /\ scheduledOn'[CurrentWord] = now
                /\ progress' = FinishSession(progress, session, now,
                                             Cardinality(DOMAIN vocab))
        /\ (session.active /\ session'.active
              /\ session'.reviewed # session.reviewed)
             => /\ session'.reviewed = session.reviewed + 1
                /\ ~session.answered
                /\ session'.index = session.index
        /\ (progress'.history # progress.history \/ progress'.xp # progress.xp
              \/ progress'.last_study_date # progress.last_study_date)
             => session.active /\ ~session'.active
      ]_vars

(***************************************************************************)
(* SpecHistory: build_study_plan and study sessions on a store of two due  *)
(* words whose histories hold 4 to 6 records, so that answers push records *)
(* out of the last 5.                                                      *)
(***************************************************************************)
Right(day) == [date |-> Strftime(day), correct |-> TRUE]
Wrong(day) == [date |-> Strftime(day), correct |-> FALSE]

\* histories as submit builds them, oldest record first
StoredHistories ==
    { [i \in 1..4 |-> Right(StartDay - 1)],
      [i \in 1..5 |-> Right(StartDay - 1)],
      <<Wrong(StartDay - 2)>> \o [i \in 1..5 |-> Right(StartDay - 1)],
      [i \in 1..5 |-> Right(StartDay - 2)] \o <<Wrong(StartDay - 1)>> }

\* an entry that got its history, and its counts, from submit
HistoryEntry(h) ==
    [NewEntry("s", "", StartDay - 2) EXCEPT
        !.times_reviewed = Len(h),
        !.times_correct = Cardinality({i \in 1..Len(h) : h[i].correct}),
        !.history = h,
        !.next_review = Strftime(StartDay)]

InitHistory ==
    /\ vocab \in [{"ant", "bee"} -> {HistoryEntry(h) : h \in StoredHistories}]
    /\ Len(vocab["bee"].history) = 6
    /\ progress = DefaultProgress
    /\ stats = DefaultStats
    /\ now = StartDay
    /\ calls = 0
    /\ scheduledOn = [w \in Words |-> NoDay]
    /\ order = KeysInOrder(vocab)
    /\ session = NoSession
    /\ disk = Loaded(vocab, progress, stats)
    /\ last = NoCall

NextHistory ==
    \/ \E t \in Targets : BuildPlan(t)
    \/ \E t \in Targets : StartSession(t)
    \/ \E g \in Guesses : Submit(g)
    \/ \E q \in SessionRatings : Rate(q)

SpecHistory == InitHistory /\ [][NextHistory]_vars

\* s is the beginning of t
IsPrefix(s, t) == Len(s) <= Len(t) /\ SubSeq(t, 1, Len(s)) = s

\* the histories that differ from h only before the last 5 records: up to
\* MaxOlder records there, right or wrong
MaxOlder == 1
OlderRecords == {Right(StartDay - 3), Wrong(StartDay - 3)}
OlderParts == UNION {[1..n -> OlderRecords] : n \in 0..MaxOlder}
WithOlder(h, older) == IF Len(h) < 5 THEN h ELSE older \o Recent(h)

\* the stores that differ from v only in those records
OlderTwins(v) ==
    {[w \in DOMAIN v |-> [v[w] EXCEPT !.history = WithOlder(@, older[w])]] :
        older \in [DOMAIN v -> OlderParts]}

\* C32: an answered card appends one record to the end of its entry's
\* history and no step removes or reorders records; build_study_plan
\* returns the same plan for every store that differs from the vocabulary
\* only in history records older than the last 5.
C32_HistoryAppendOnly ==
    /\ [](JustPlanned =>
            \A t \in OlderTwins(vocab) :
               BuildStudyPlan(t, now, last.target) = last.ret)
    /\ [][ \A w \in DOMAIN vocab :
             /\ w \in DOMAIN vocab'
             /\ IsPrefix(vocab[w].history, vocab'[w].history)
             /\ Len(vocab'[w].history) <= Len(vocab[w].history) + 1
             /\ Len(vocab'[w].history) = Len(vocab[w].history) + 1
                  <=> /\ session'.reviewed = session.reviewed + 1
                      /\ w = CurrentWord
                      /\ vocab'[w].history[Len(vocab'[w].history)].date
                            = Strftime(now)
         ]_vars

\* a plan is built for a store in which an answer of this run has pushed a
\* wrong answer out of the last 5 records
C32_Witness ==
    /\ JustPlanned
    /\ Len(last.ret) = 2
    /\ \E w \in DOMAIN vocab :
          /\ Len(vocab[w].history) = 7
          /\ ~vocab[w].history[1].correct
          /\ vocab[w].history[7].date = Strftime(now)

====
